---- MODULE Spec2Model ----
(***************************************************************************)
(* Model of the note regeneration and merge engine of vobsidian:           *)
(*   common.py            Event Model and Table Renderer                   *)
(*   make_daily_note.py   Bucketing Engine, daily Note Merge/Write         *)
(*   make_tripit_note.py  Trip Aggregator, trip Note Merge/Write           *)
(*                                                                         *)
(* Text is a sequence of tokens.  A token is a string standing for a run   *)
(* of characters; the tokens the merge patterns look at ("\n", "## Notes", *)
(* "## Tasks", "# Bookings") are tokens of their own, so a pattern over    *)
(* characters is the same pattern over tokens.  A datetime is a whole      *)
(* number of hours since midnight of day 0.                                *)
(***************************************************************************)
EXTENDS Integers, Sequences, FiniteSets, TLC

VARIABLES
    vault,      \* the files on disk: path -> text, for the paths that exist
    last,       \* the last call of a note builder: arguments, locals, outcome
    run,        \* the batch loop of build_notes: position and status
    tab         \* a call of make_event_table: arguments and rows

vars == <<vault, last, run, tab>>

-----------------------------------------------------------------------------
(* Bounds of the model *)

MaxTabEvents == 3      \* events given to make_event_table on its own
MaxEvents == 3         \* calendar records given to build_note_for_date
MaxSegments == 2       \* segments of a Flight or Rail booking
MaxFlights == 2        \* Flight bookings of a trip
MaxEdit == 3           \* tokens a user types into the Notes region
MaxNotesLen == 4       \* a Notes region longer than this is not regenerated again
MaxDays == 2           \* args.days of a daily batch
MaxTrips == 2          \* trips of a payload

-----------------------------------------------------------------------------
(* Tokens *)

NL == "\n"
NOTES == "## Notes"
TASKS == "## Tasks"
BOOKINGS == "# Bookings"
None == <<"None">>          \* Python's None where a text is expected

HoursPerDay == 24

-----------------------------------------------------------------------------
(* Text helpers: str.replace and re.findall over token sequences *)

\* txt.replace(old, new) for a one-token old: every occurrence is replaced
\* (the text is halved at each step to keep the evaluation shallow)
RECURSIVE Replace(_, _, _)
Replace(txt, old, new) ==
    IF txt = <<>> THEN <<>>
    ELSE IF Len(txt) = 1 THEN (IF txt[1] = old THEN new ELSE txt)
    ELSE LET h == Len(txt) \div 2
         IN  Replace(SubSeq(txt, 1, h), old, new)
             \o Replace(SubSeq(txt, h + 1, Len(txt)), old, new)

\* does the token sequence pat occur in c at position j
OccursAt(c, j, pat) ==
    /\ j >= 1
    /\ j + Len(pat) - 1 <= Len(c)
    /\ SubSeq(c, j, j + Len(pat) - 1) = pat

\* the positions where "(## Notes.+)<suffix>" started at i can end its group:
\* .+ takes at least one character, DOTALL lets it cross newlines
SuffixStarts(c, i, suffix) ==
    {j \in (i + 2)..Len(c) : OccursAt(c, j, suffix)}

SetMax(S) == CHOOSE m \in S : \A x \in S : x <= m
SetMin(S) == CHOOSE m \in S : \A x \in S : m <= x

\* the positions at or after i where the pattern can start
MatchStarts(c, i, suffix) ==
    {k \in i..Len(c) : c[k] = NOTES /\ SuffixStarts(c, k, suffix) # {}}

\* re.findall(r'(## Notes.+)<suffix>', c, re.DOTALL) scanning from position i:
\* leftmost match, greedy .+ (the last suffix), then on from the match's end
RECURSIVE FindAllFrom(_, _, _)
FindAllFrom(c, i, suffix) ==
    IF MatchStarts(c, i, suffix) = {} THEN <<>>
    ELSE LET k == SetMin(MatchStarts(c, i, suffix))
             j == SetMax(SuffixStarts(c, k, suffix))
         IN  <<SubSeq(c, k, j - 1)>> \o FindAllFrom(c, j + Len(suffix), suffix)

FindAll(c, suffix) == FindAllFrom(c, 1, suffix)

\* is the token sequence pat a contiguous part of c
Contains(c, pat) == \E j \in 1..(Len(c) + 1) : OccursAt(c, j, pat)

-----------------------------------------------------------------------------
(* common.py: Event Model *)

Hour12(h) == IF h % 12 = 0 THEN 12 ELSE h % 12

\* DefaultEvent.convert_time: '%-I:%M%p', with '%a %b %d ' in front for show_day
convert_time(v, show_day) ==
    LET h == v % HoursPerDay
        clock == <<ToString(Hour12(h)), ":00", IF h < 12 THEN "AM" ELSE "PM">>
    IN  IF show_day THEN <<"day", ToString(v \div HoursPerDay)>> \o clock
        ELSE clock

link_relative(heading) == <<"[[#">> \o heading \o <<"]]">>

get_map_query(args) ==
    <<"https://www.google.com/maps/search/?api=1&query=">> \o args

link_location(location) ==
    IF location = None THEN <<>>
    ELSE IF location # <<>> /\ location[1] = "http"
    THEN <<"[link](">> \o location \o <<")">>
    ELSE <<"[">> \o location \o <<"](">> \o get_map_query(location) \o <<")">>

\* DefaultEvent.format: one cell per field, in declaration order
format(e) ==
    << convert_time(e.start, FALSE), convert_time(e.end, FALSE),
       link_relative(e.summary), link_location(e.location) >>

\* TripitEvent: its own field order, times with the day
format_tripit(e) ==
    << <<e.type>>, convert_time(e.start, TRUE), convert_time(e.end, TRUE),
       link_relative(e.summary), link_location(e.location), e.price >>

-----------------------------------------------------------------------------
(* common.py: Table Renderer *)

\* the value added to seen for an event (line 90)
SeenKey(e) == link_relative(e.summary)

\* the test of line 88
IsDuplicate(e, seen, ignore_duplicates) ==
    ignore_duplicates /\ e.summary \in seen

\* the loop of make_event_table: the events whose rows are kept, in order
RECURSIVE KeptEvents(_, _, _)
KeptEvents(events, seen, ignore_duplicates) ==
    IF events = <<>> THEN <<>>
    ELSE LET e == Head(events)
         IN  IF IsDuplicate(e, seen, ignore_duplicates)
             THEN KeptEvents(Tail(events), seen, ignore_duplicates)
             ELSE <<e>> \o KeptEvents(Tail(events), seen \cup {SeenKey(e)},
                                      ignore_duplicates)

RECURSIVE MapFormat(_, _)
MapFormat(events, tripit) ==
    IF events = <<>> THEN <<>>
    ELSE <<IF tripit THEN format_tripit(Head(events)) ELSE format(Head(events))>>
         \o MapFormat(Tail(events), tripit)

\* rows of make_event_table(events, ignore_duplicates, Event)
TableRows(events, ignore_duplicates, tripit) ==
    MapFormat(KeptEvents(events, {}, ignore_duplicates), tripit)

RECURSIVE RowText(_)
RowText(row) ==
    IF row = <<>> THEN <<"|">> ELSE <<"|">> \o Head(row) \o RowText(Tail(row))

RECURSIVE RowsText(_)
RowsText(rows) ==
    IF rows = <<>> THEN <<>>
    ELSE RowText(Head(rows)) \o <<NL>> \o RowsText(Tail(rows))

\* MarkdownTableWriter(headers, value_matrix).dumps()
make_event_table(events, ignore_duplicates, tripit) ==
    <<IF tripit THEN "|type|start|end|summary|location|price|"
      ELSE "|start|end|summary|location|", NL, "|---|", NL>>
    \o RowsText(TableRows(events, ignore_duplicates, tripit))

-----------------------------------------------------------------------------
(* make_daily_note.py: Bucketing Engine *)

\* v.replace(hour=0, minute=0, second=0, microsecond=0)
Midnight(v) == v - (v % HoursPerDay)

\* (a - b).days: timedelta normalises to a floor of whole days
DaysBetween(a, b) == (a - b) \div HoursPerDay

is_today_strict(event, date) == Midnight(event.localStartDate) < date

\* line 70
is_today(event, date) == Midnight(event.localStartDate) <= date

\* line 74: the key of the upcoming bucket
UpcomingKey(event, date) == DaysBetween(event.localStartDate, date)

\* events_upcoming[k].append(event) on a defaultdict(list), which keeps its
\* keys in the order of their first use
AppendUpcoming_assign(upcoming, k, event) ==
    IF \E i \in 1..Len(upcoming) : upcoming[i].days = k
    THEN [i \in 1..Len(upcoming) |->
            IF upcoming[i].days = k THEN [days |-> k, events |-> <<event>>]
            ELSE upcoming[i]]
    ELSE Append(upcoming, [days |-> k, events |-> <<event>>])

AppendUpcoming(upcoming, k, event) ==
    IF \E i \in 1..Len(upcoming) : upcoming[i].days = k
    THEN [i \in 1..Len(upcoming) |->
            IF upcoming[i].days = k
            THEN [upcoming[i] EXCEPT !.events = Append(@, event)]
            ELSE upcoming[i]]
    ELSE Append(upcoming, [days |-> k, events |-> <<event>>])

\* lines 68-74: the split of the records into today and upcoming buckets
RECURSIVE Bucket(_, _, _, _)
Bucket(events, date, today, upcoming) ==
    IF events = <<>> THEN [today |-> today, upcoming |-> upcoming]
    ELSE LET event == Head(events)
         IN  IF is_today(event, date)
             THEN Bucket(Tail(events), date, Append(today, event), upcoming)
             ELSE Bucket(Tail(events), date, today,
                         AppendUpcoming(upcoming, UpcomingKey(event, date), event))

\* an AppleEvent of a calendar record
AppleEvent(e) ==
    [summary |-> e.title, start |-> e.localStartDate, end |-> e.localEndDate,
     location |-> IF "location" \in DOMAIN e THEN e.location ELSE None]

convert_apple_events(events) == [i \in 1..Len(events) |-> AppleEvent(events[i])]

\* date.strftime('%Y-%m-%d'): the calendar day of a datetime
DayName(v) == ToString(v \div HoursPerDay)

\* '\n'.join(parts)
RECURSIVE JoinNL(_)
JoinNL(parts) ==
    IF parts = <<>> THEN <<>>
    ELSE IF Len(parts) = 1 THEN Head(parts)
    ELSE Head(parts) \o <<NL>> \o JoinNL(Tail(parts))

RECURSIVE UpcomingParts(_, _)
UpcomingParts(upcoming, subtree) ==
    IF upcoming = <<>> THEN <<>>
    ELSE LET b == Head(upcoming)
             date == b.events[1].localStartDate
         IN  << <<"### In [[", subtree, "/", DayName(date), ".md", " | ",
                  ToString(b.days), " days ", "pretty", DayName(date), "]]:">>,
                make_event_table(convert_apple_events(b.events), TRUE, FALSE),
                <<>> >>
             \o UpcomingParts(Tail(upcoming), subtree)

format_upcoming(upcoming, subtree) == JoinNL(UpcomingParts(upcoming, subtree))

DueDays == 14

\* TEMPLATE_AGENDA.format(...)
AgendaText(date, events_today, events_upcoming, subtree) ==
    <<"# Agenda for ", "long", DayName(date), NL, NL,
      NOTES, NL, NL, NL,
      TASKS, NL, NL,
      "Outstanding", NL, "(fence)tasks", NL, "not done", NL,
      "due before ", DayName(date + DueDays * HoursPerDay), NL, "(fence)", NL, NL,
      "Finished", NL, "(fence)tasks", NL, "done on ", DayName(date), NL, "(fence)", NL, NL,
      "## Today", NL, NL>>
    \o make_event_table(convert_apple_events(events_today), TRUE, FALSE)
    \o <<NL, NL, "## Upcoming", NL, NL>>
    \o format_upcoming(events_upcoming, subtree)

-----------------------------------------------------------------------------
(* Note Merge/Write *)

Exists(path) == path \in DOMAIN vault

\* fnote.open('wt') and f.write(text)
WriteFile(path, text) ==
    [p \in DOMAIN vault \cup {path} |-> IF p = path THEN text ELSE vault[p]]

\* the boundary that ends the Notes region in a daily note and in a trip note
DailySuffix == <<NL, TASKS>>
TripSuffix == <<NL, NL, BOOKINGS>>

\* make_daily_note.py lines 84-99
DailyMerge(path, txt, overwrite) ==
    IF Exists(path)
    THEN IF overwrite
         THEN LET existing_notes == FindAll(vault[path], DailySuffix)
              IN  IF Len(existing_notes) = 1
                  THEN [outcome |-> "overwrote",
                        files |-> WriteFile(path, Replace(txt, NOTES, existing_notes[1]))]
                  ELSE [outcome |-> "AssertionError", files |-> vault]
         ELSE [outcome |-> "skipped", files |-> vault]
    ELSE [outcome |-> "wrote", files |-> WriteFile(path, txt)]

DailySubtree == "Agenda"

DailyPath(date) == <<DailySubtree, DayName(date), ".md">>

\* build_note_for_date(events, date, args): the whole call
build_note_for_date(events, date, overwrite) ==
    LET b == Bucket(events, date, <<>>, <<>>)
        txt == AgendaText(date, b.today, b.upcoming, DailySubtree)
        path == DailyPath(date)
        m == DailyMerge(path, txt, overwrite)
    IN  /\ vault' = m.files
        /\ last' = [fn |-> "build_note_for_date", path |-> path,
                    overwrite |-> overwrite, existed |-> Exists(path),
                    pre |-> IF Exists(path) THEN vault[path] ELSE <<>>,
                    txt |-> txt, outcome |-> m.outcome,
                    events |-> events, date |-> date,
                    events_today |-> b.today, events_upcoming |-> b.upcoming,
                    objects |-> <<>>, trip_events |-> <<>>,
                    table_events |-> <<>>, table_rows |-> <<>>]

-----------------------------------------------------------------------------
(* make_tripit_note.py: Trip Aggregator *)

\* datetime.fromisoformat(dt['date'] + 'T' + dt['time'])
make_iso_datetime(dt) == dt.date * HoursPerDay + dt.time

\* the keys of a booking map are names such as LodgingObject: a stem and,
\* for a booking kind, the ending "Object"
LodgingObject == <<"Lodging", "Object">>
WeatherObject == <<"Weather", "Object">>
AirObject == <<"Air", "Object">>
RailObject == <<"Rail", "Object">>
TransportObject == <<"Transport", "Object">>

RecognizedKinds ==
    {LodgingObject, WeatherObject, AirObject, RailObject, TransportObject}

\* objects.get(k, [])
ObjectsOf(objects, k) == IF k \in DOMAIN objects THEN objects[k] ELSE <<>>

\* obj.get(key, default)
Get(obj, key, default) == IF key \in DOMAIN obj THEN obj[key] ELSE default

\* lines 131-146: the TripEvent of a lodging booking; force_keys has set a
\* missing total_cost to None before the event is built
LodgingEvent(obj) ==
    [summary |-> obj.display_name,
     start |-> make_iso_datetime(obj.StartDateTime),
     end |-> make_iso_datetime(obj.EndDateTime),
     location |-> IF "supplier_name" \in DOMAIN obj
                  THEN obj.supplier_name \o <<" ">> \o obj.Address.address
                  ELSE None,
     type |-> "Lodging",
     price |-> Get(obj, "total_cost", None)]

\* lines 151-152 and 165-166: a single Segment object becomes a list of one
Segments(obj) ==
    IF obj.Segment.isdict THEN <<obj.Segment.value>> ELSE obj.Segment.value

\* lines 160 and 173: the price of the event of segment i (from 0)
SegmentPrice_every(obj, i) == Get(obj, "total_cost", <<"unknown">>)

SegmentPrice(obj, i) ==
    IF i = 0 THEN Get(obj, "total_cost", <<"unknown">>) ELSE <<"-">>

FlightHeader(s) ==
    <<s.start_city_name, " to ", s.end_city_name, " on ",
      s.marketing_airline, " ", s.marketing_flight_number>>

TrainHeader(s) ==
    <<s.start_station_name, " to ", s.end_station_name, " (",
      s.service_class, s.train_number, ")">>

\* lines 153-160: the TripEvents of a flight booking, one per segment
FlightEvents(obj) ==
    LET segs == Segments(obj)
    IN  [n \in 1..Len(segs) |->
            [summary |-> FlightHeader(segs[n]),
             start |-> make_iso_datetime(segs[n].StartDateTime),
             end |-> make_iso_datetime(segs[n].EndDateTime),
             location |-> <<segs[n].start_city_name, " ",
                            segs[n].start_airport_code, " Airport">>,
             type |-> "Flight",
             price |-> SegmentPrice(obj, n - 1)]]

\* lines 167-173: the TripEvents of a rail booking, one per segment
TrainEvents(obj) ==
    LET segs == Segments(obj)
    IN  [n \in 1..Len(segs) |->
            [summary |-> TrainHeader(segs[n]),
             start |-> make_iso_datetime(segs[n].StartDateTime),
             end |-> make_iso_datetime(segs[n].EndDateTime),
             location |-> <<segs[n].start_station_name, " Station">>,
             type |-> "Train",
             price |-> SegmentPrice(obj, n - 1)]]

RECURSIVE LodgingEventsOf(_)
LodgingEventsOf(objs) ==
    IF objs = <<>> THEN <<>>
    ELSE <<LodgingEvent(Head(objs))>> \o LodgingEventsOf(Tail(objs))

RECURSIVE FlightEventsOf(_)
FlightEventsOf(objs) ==
    IF objs = <<>> THEN <<>>
    ELSE FlightEvents(Head(objs)) \o FlightEventsOf(Tail(objs))

RECURSIVE TrainEventsOf(_)
TrainEventsOf(objs) ==
    IF objs = <<>> THEN <<>>
    ELSE TrainEvents(Head(objs)) \o TrainEventsOf(Tail(objs))

\* the list events at line 175: lodging, then flights, then trains
TripEvents(objects) ==
    LodgingEventsOf(ObjectsOf(objects, LodgingObject))
    \o FlightEventsOf(ObjectsOf(objects, AirObject))
    \o TrainEventsOf(ObjectsOf(objects, RailObject))

\* TEMPLATE_LODGING, TEMPLATE_FLIGHT, TEMPLATE_TRAIN for an event's booking
BlockText(e, template) ==
    <<NL, NL, "### ">> \o e.summary \o <<NL, NL, "[Map](">>
    \o get_map_query(e.summary) \o <<")", NL, NL, template, NL>>

RECURSIVE BlocksText(_, _)
BlocksText(es, template) ==
    IF es = <<>> THEN <<>>
    ELSE BlockText(Head(es), template) \o BlocksText(Tail(es), template)

\* HEADER_DEFAULT for a kind that is in the booking map, and its blocks
SectionText(objects, k, field, es, template) ==
    (IF k \in DOMAIN objects THEN <<NL, NL, "## ", field>> ELSE <<>>)
    \o BlocksText(es, template)

\* the text txt of lines 127-173
BookingsText(objects) ==
    SectionText(objects, LodgingObject, "Lodging",
                LodgingEventsOf(ObjectsOf(objects, LodgingObject)), "lodging block")
    \o SectionText(objects, AirObject, "Flight",
                   FlightEventsOf(ObjectsOf(objects, AirObject)), "flight block")
    \o SectionText(objects, RailObject, "Rail",
                   TrainEventsOf(ObjectsOf(objects, RailObject)), "train block")

\* k.endswith('Object')
EndsWithObject(k) == k # <<>> /\ k[Len(k)] = "Object"

\* lines 175-179: is there a key that makes the builder raise
HasUnknownKind_startswith(objects) ==
    \E k \in DOMAIN objects : k # <<>> /\ k[1] = "Object" /\ k \notin RecognizedKinds

HasUnknownKind(objects) ==
    \E k \in DOMAIN objects : EndsWithObject(k) /\ k \notin RecognizedKinds

\* sorted(events, key=lambda e: e.start): stable
RECURSIVE InsertByStart(_, _)
InsertByStart(sorted, e) ==
    IF sorted = <<>> THEN <<e>>
    ELSE IF sorted[Len(sorted)].start <= e.start THEN Append(sorted, e)
    ELSE Append(InsertByStart(SubSeq(sorted, 1, Len(sorted) - 1), e),
                sorted[Len(sorted)])

RECURSIVE SortFrom(_, _)
SortFrom(sorted, events) ==
    IF events = <<>> THEN sorted
    ELSE SortFrom(InsertByStart(sorted, Head(events)), Tail(events))

SortedByStart_asGiven(events) == events

SortedByStart(events) == SortFrom(<<>>, events)

\* TEMPLATE_TRIP.format(table=..., **trip)
TripHeaderText(trip, events) ==
    <<"# Trip:: ">> \o trip.display_name
    \o <<NL, NL, "Start:: ", trip.start_date, NL, "End:: ", trip.end_date, NL,
         "Location:: ", trip.primary_location, NL,
         "Tripit:: [link](http://tripit.com/", trip.relative_url, ")", NL, NL>>
    \o make_event_table(SortedByStart(events), TRUE, TRUE)
    \o <<NL, NL, NOTES, NL, NL, BOOKINGS>>

TripSubtree == "Trips"

\* line 124: '{}-{}.md'.format(start_date, display_name.replace(' ', '_'))
TripPath(trip) ==
    <<TripSubtree, trip.start_date, "-">>
    \o Replace(trip.display_name, " ", <<"_">>) \o <<".md">>

TripMerge_clobber(path, txt, overwrite) ==
    IF Exists(path)
    THEN LET found == FindAll(vault[path], TripSuffix)
             existing_notes == IF found # <<>> THEN found[1] ELSE <<>>
         IN  [outcome |-> "overwrote",
              files |-> WriteFile(path, Replace(txt, NOTES, existing_notes))]
    ELSE [outcome |-> "wrote", files |-> WriteFile(path, txt)]

\* make_tripit_note.py lines 187-205
TripMerge(path, txt, overwrite) ==
    IF Exists(path)
    THEN IF overwrite
         THEN LET found == FindAll(vault[path], TripSuffix)
                  existing_notes == IF found # <<>> THEN found[1] ELSE <<>>
              IN  [outcome |-> "overwrote",
                   files |-> WriteFile(path, Replace(txt, NOTES, existing_notes))]
         ELSE [outcome |-> "skipped", files |-> vault]
    ELSE [outcome |-> "wrote", files |-> WriteFile(path, txt)]

\* build_note_for_trip(trip, objects, args): the whole call
build_note_for_trip(trip, objects, overwrite) ==
    LET path == TripPath(trip)
        events == TripEvents(objects)
        raised == HasUnknownKind(objects)
        txt == IF raised THEN <<>>
               ELSE TripHeaderText(trip, events) \o BookingsText(objects)
        m == IF raised THEN [outcome |-> "NotImplementedError", files |-> vault]
             ELSE TripMerge(path, txt, overwrite)
    IN  /\ vault' = m.files
        /\ last' = [fn |-> "build_note_for_trip", path |-> path,
                    overwrite |-> overwrite, existed |-> Exists(path),
                    pre |-> IF Exists(path) THEN vault[path] ELSE <<>>,
                    txt |-> txt, outcome |-> m.outcome,
                    events |-> <<>>, date |-> 0,
                    events_today |-> <<>>, events_upcoming |-> <<>>,
                    objects |-> objects, trip_events |-> events,
                    table_events |-> IF raised THEN <<>> ELSE SortedByStart(events),
                    table_rows |-> IF raised THEN <<>>
                                   ELSE TableRows(SortedByStart(events), TRUE, TRUE)]

-----------------------------------------------------------------------------
(* States that a specification leaves alone *)

NoCall == [fn |-> "none"]
NoRun == [prog |-> "none"]
NoTab == [phase |-> "none"]

-----------------------------------------------------------------------------
(* Specification of make_event_table on its own *)

TabSummaries == {<<"a">>, <<"b">>, link_relative(<<"a">>)}

TabEvent(s) == [start |-> 9, end |-> 10, summary |-> s, location |-> None]

RECURSIVE SeqsUpTo(_, _)
SeqsUpTo(S, n) ==
    IF n = 0 THEN {<<>>}
    ELSE LET shorter == SeqsUpTo(S, n - 1)
         IN  shorter \cup {Append(s, x) : s \in shorter, x \in S}

TabInit ==
    /\ vault = <<>>
    /\ last = NoCall
    /\ run = NoRun
    /\ \E ss \in SeqsUpTo(TabSummaries, MaxTabEvents), dedup \in BOOLEAN :
         tab = [phase |-> "called", ignore_duplicates |-> dedup,
                events |-> [i \in 1..Len(ss) |-> TabEvent(ss[i])], rows |-> <<>>]

CallMakeEventTable ==
    /\ tab.phase = "called"
    /\ tab' = [tab EXCEPT !.phase = "returned",
                          !.rows = TableRows(tab.events, tab.ignore_duplicates, FALSE)]
    /\ UNCHANGED <<vault, last, run>>

TabNext == CallMakeEventTable

SpecTable == TabInit /\ [][TabNext]_vars

\* the positions of events whose summary occurs at no earlier position
FirstOccurrences(events) ==
    {i \in 1..Len(events) :
        \A j \in 1..(i - 1) : events[j].summary # events[i].summary}

RECURSIVE SelectPositions(_, _, _)
SelectPositions(s, P, i) ==
    IF i > Len(s) THEN <<>>
    ELSE (IF i \in P THEN <<s[i]>> ELSE <<>>) \o SelectPositions(s, P, i + 1)

\* C4: with ignore_duplicates on, make_event_table emits exactly one row per
\* distinct summary, the row of the first event carrying it.
C4_DedupFirstOccurrence ==
    (tab.phase = "returned" /\ tab.ignore_duplicates)
        => tab.rows = MapFormat(SelectPositions(tab.events,
                                                FirstOccurrences(tab.events), 1),
                                FALSE)

-----------------------------------------------------------------------------
(* Specification of the two note builders called on a vault that a user    *)
(* edits between the calls.  A behaviour is the life of the notes of one   *)
(* of the two programs, which keep their notes in different subtrees.      *)

DailyProgram == "make_daily_note"
TripProgram == "make_tripit_note"

CalRecord(title, start) ==
    [title |-> <<title>>, localStartDate |-> start, localEndDate |-> start + 1]

NoteDate == HoursPerDay           \* the anchor: midnight of day 1

NoteEvents == {<<>>, <<CalRecord("standup", NoteDate + 9)>>}

NoteTrip ==
    [id |-> 1, display_name |-> <<"Rome", " ", "2024">>, start_date |-> "2024-05-01",
     end_date |-> "2024-05-03", primary_location |-> "Rome", relative_url |-> "trip/1"]

When(d, t) == [date |-> d, time |-> t]

Lodging(name, d) ==
    [trip_id |-> 1, display_name |-> <<name>>, StartDateTime |-> When(d, 15),
     EndDateTime |-> When(d + 1, 11), supplier_name |-> <<"Hilton">>,
     Address |-> [address |-> <<"Via Roma 1">>]]

AirSegment(from, to, d, t) ==
    [start_city_name |-> from, end_city_name |-> to, start_airport_code |-> "FCO",
     marketing_airline |-> "AZ", marketing_flight_number |-> "610",
     StartDateTime |-> When(d, t), EndDateTime |-> When(d, t + 2)]

RailSegment(from, to, d, t) ==
    [start_station_name |-> from, end_station_name |-> to, service_class |-> "2nd",
     train_number |-> "9610", StartDateTime |-> When(d, t), EndDateTime |-> When(d, t + 1)]

\* a booking whose Segment is one object, and one whose Segment is a list
OneSegment(seg) == [trip_id |-> 1, Segment |-> [isdict |-> TRUE, value |-> seg]]
ManySegments(segs) == [trip_id |-> 1, Segment |-> [isdict |-> FALSE, value |-> segs]]

WithCost(obj, cost) ==
    [k \in DOMAIN obj \cup {"total_cost"} |-> IF k = "total_cost" THEN cost ELSE obj[k]]

CarObject == <<"Car", "Object">>

NoteObjects ==
    { <<>>,
      LodgingObject :> <<Lodging("Hotel", 1)>>,
      AirObject :> <<WithCost(OneSegment(AirSegment("SFO", "FCO", 1, 8)), <<"$500">>)>>,
      (LodgingObject :> <<Lodging("Hotel", 1)>>) @@ (CarObject :> <<[trip_id |-> 1]>>),
      CarObject :> <<[trip_id |-> 1]>> }

\* the first position of token t in c at or after i, 0 when there is none
IndexFrom(c, t, i) ==
    LET at == {k \in i..Len(c) : c[k] = t}
    IN  IF at = {} THEN 0 ELSE SetMin(at)

\* the Notes region of a note: from the "## Notes" heading up to the next
\* boundary heading; empty when the note has no such region
NotesRegion(c, boundary) ==
    LET i == IndexFrom(c, NOTES, 1)
        j == IF i = 0 THEN 0 ELSE IndexFrom(c, boundary, i + 1)
    IN  IF j = 0 THEN <<>> ELSE SubSeq(c, i, j - 1)

\* the note after the user has put text u under the "## Notes" heading
WithNotes(c, boundary, u) ==
    LET i == IndexFrom(c, NOTES, 1)
        j == IndexFrom(c, boundary, i + 1)
    IN  SubSeq(c, 1, i) \o u \o SubSeq(c, j, Len(c))

\* what a user leaves between the "## Notes" line and the boundary heading's
\* line: nothing, or lines of text and blank lines; each ends with its newline
UserTexts ==
    {w \o <<NL>> : w \in {v \in SeqsUpTo({NL, "note"}, MaxEdit) : v = <<>> \/ v[1] = NL}}

NoteInit ==
    /\ vault = <<>>
    /\ last = NoCall
    /\ run \in {[prog |-> DailyProgram], [prog |-> TripProgram]}
    /\ tab = NoTab

CallBuildNoteForDate ==
    /\ run.prog = DailyProgram
    /\ Exists(DailyPath(NoteDate))
         => Len(NotesRegion(vault[DailyPath(NoteDate)], TASKS)) <= MaxNotesLen
    /\ \E events \in NoteEvents, overwrite \in BOOLEAN :
         build_note_for_date(events, NoteDate, overwrite)
    /\ UNCHANGED <<run, tab>>

CallBuildNoteForTrip ==
    /\ run.prog = TripProgram
    /\ \E objects \in NoteObjects, overwrite \in BOOLEAN :
         build_note_for_trip(NoteTrip, objects, overwrite)
    /\ UNCHANGED <<run, tab>>

\* the user puts one of texts into the Notes region of an existing note
EditNotes(texts) ==
    /\ \E path \in DOMAIN vault, u \in texts :
         LET boundary == IF run.prog = DailyProgram THEN TASKS ELSE BOOKINGS
         IN  /\ NotesRegion(vault[path], boundary) # <<>>
             /\ vault' = WriteFile(path, WithNotes(vault[path], boundary, u))
    /\ last' = [fn |-> "user edit"]
    /\ UNCHANGED <<run, tab>>

UserEdit == EditNotes(UserTexts)

NoteNext == CallBuildNoteForDate \/ CallBuildNoteForTrip \/ UserEdit

SpecNote == NoteInit /\ [][NoteNext]_vars

IsBuilderCall == last.fn \in {"build_note_for_date", "build_note_for_trip"}

\* the boundary heading and the boundary pattern of the builder last called
LastBoundary == IF last.fn = "build_note_for_date" THEN TASKS ELSE BOOKINGS
LastSuffix == IF last.fn = "build_note_for_date" THEN DailySuffix ELSE TripSuffix

\* the file of the last call is as it was before the call
LastFileUntouched ==
    /\ Exists(last.path) = last.existed
    /\ last.existed => vault[last.path] = last.pre

\* C1: a note regenerated with overwrite, whose Notes region holds text of the
\* user, is written with that Notes region in it, byte for byte.
C1_RoundTripMerge ==
    (IsBuilderCall /\ last.existed /\ last.overwrite /\ last.outcome = "overwrote"
        /\ Contains(NotesRegion(last.pre, LastBoundary), <<"note">>))
        => Contains(vault[last.path], NotesRegion(last.pre, LastBoundary))

\* a call of build_note_for_date with overwrite that wrote the note
DailyRegenerated(l) ==
    /\ l.fn = "build_note_for_date"
    /\ l.overwrite
    /\ l.outcome \in {"wrote", "overwrote"}

\* C13: a second run of build_note_for_date with overwrite, directly after a
\* first one on the same records and anchor date, leaves the file with the
\* content the first run wrote.
C13_OverwriteIdempotent ==
    [][(/\ DailyRegenerated(last)
        /\ DailyRegenerated(last')
        /\ last'.events = last.events
        /\ last'.date = last.date
        /\ last'.path = last.path)
           => vault'[last.path] = vault[last.path]]_vars

\* C2: when the note exists, overwrite is requested and the Notes pattern does
\* not match exactly once, the builder fails and leaves the file as it was.
C2_MalformedNoteError ==
    (IsBuilderCall /\ last.existed /\ last.overwrite
        /\ Len(FindAll(last.pre, LastSuffix)) # 1)
        => /\ last.outcome \in {"AssertionError", "NotImplementedError"}
           /\ LastFileUntouched

\* the write decision of a call: a new note is written verbatim, an existing
\* one is skipped without overwrite, nothing else is modified, nothing deleted
WriteDecision ==
    /\ ~last.existed => (last.outcome = "wrote" /\ Exists(last.path)
                            /\ vault[last.path] = last.txt)
    /\ (last.existed /\ ~last.overwrite)
          => (last.outcome = "skipped" /\ LastFileUntouched)
    /\ ~LastFileUntouched => (~last.existed \/ last.overwrite)
    /\ last.existed => Exists(last.path)

\* C3 as stated: every call of a builder follows the write decision.
C3_WriteDecisionAlways == IsBuilderCall => WriteDecision

\* the booking map has a key ending in "Object" that is not a recognized kind
UnknownKindGiven ==
    \E k \in DOMAIN last.objects :
        /\ k[Len(k)] = "Object"
        /\ k \notin {LodgingObject, WeatherObject, AirObject, RailObject, TransportObject}

\* C3 amended: a call that gets as far as the write decision follows it; a call
\* of the trip builder with an unrecognized booking kind raises instead, whatever
\* the state of the file, and leaves the file as it was.
C3_WriteDecision ==
    IsBuilderCall =>
        IF last.fn = "build_note_for_trip" /\ UnknownKindGiven
        THEN last.outcome = "NotImplementedError" /\ LastFileUntouched
        ELSE WriteDecision

C3_Witness ==
    /\ IsBuilderCall
    /\ last.existed /\ ~last.overwrite /\ last.outcome = "skipped"
    /\ last.txt # last.pre

\* C8: build_note_for_trip given a booking map with an unrecognized kind raises,
\* and the note file is as it was, whatever its state and the overwrite flag.
C8_UnknownKindRejected ==
    (last.fn = "build_note_for_trip" /\ UnknownKindGiven)
        => (last.outcome = "NotImplementedError" /\ LastFileUntouched)

C8_Witness ==
    /\ last.fn = "build_note_for_trip" /\ UnknownKindGiven
    /\ last.existed /\ last.overwrite
    /\ last.outcome = "NotImplementedError"

-----------------------------------------------------------------------------
(* Specification of build_note_for_date as a function of its arguments:    *)
(* one call on an empty vault, the records and the anchor drawn from sets  *)

DateTitles == {"a", "b"}

\* starts before, on and after the anchors, at midnight and during the day
DateStarts ==
    {HoursPerDay - 1, HoursPerDay, HoursPerDay + 9, 2 * HoursPerDay,
     2 * HoursPerDay + 9, 3 * HoursPerDay + 9}

DateRecords == {CalRecord(t, st) : t \in DateTitles, st \in DateStarts}

\* anchors: midnight of day 1, day 1 at 9:00, midnight of day 2
DateAnchors == {HoursPerDay, HoursPerDay + 9, 2 * HoursPerDay}

DateInit ==
    /\ vault = <<>>
    /\ last = NoCall
    /\ run = [prog |-> DailyProgram]
    /\ tab = NoTab

DateCall ==
    /\ last = NoCall
    /\ \E events \in SeqsUpTo(DateRecords, MaxEvents), date \in DateAnchors :
         build_note_for_date(events, date, FALSE)
    /\ UNCHANGED <<run, tab>>

DateNext == DateCall

SpecDate == DateInit /\ [][DateNext]_vars

\* how many times x occurs in the sequence s
Count(s, x) == Cardinality({i \in 1..Len(s) : s[i] = x})

RECURSIVE SumCounts(_, _)
SumCounts(buckets, x) ==
    IF buckets = <<>> THEN 0
    ELSE Count(Head(buckets).events, x) + SumCounts(Tail(buckets), x)

\* sub is s with some elements left out, the others in their order
RECURSIVE IsSubsequence(_, _)
IsSubsequence(sub, s) ==
    IF sub = <<>> THEN TRUE
    ELSE IF s = <<>> THEN FALSE
    ELSE IF Head(sub) = Head(s) THEN IsSubsequence(Tail(sub), Tail(s))
    ELSE IsSubsequence(sub, Tail(s))

\* C5: every record given to build_note_for_date is in exactly one of the today
\* list and the upcoming buckets, one bucket per day offset, and each bucket
\* lists its records in the order of the input.
C5_BucketPartition ==
    last.fn = "build_note_for_date" =>
        LET today == last.events_today
            upcoming == last.events_upcoming
        IN  /\ \A i \in 1..Len(last.events) :
                 Count(last.events, last.events[i])
                    = Count(today, last.events[i]) + SumCounts(upcoming, last.events[i])
            /\ Len(today) + Len(upcoming) <= Len(last.events)
            /\ \A i, j \in 1..Len(upcoming) :
                 upcoming[i].days = upcoming[j].days => i = j
            /\ IsSubsequence(today, last.events)
            /\ \A i \in 1..Len(upcoming) :
                 /\ upcoming[i].events # <<>>
                 /\ IsSubsequence(upcoming[i].events, last.events)

\* two records in one upcoming bucket, and a record in today
C5_Witness ==
    /\ last.fn = "build_note_for_date"
    /\ last.events_today # <<>>
    /\ \E i \in 1..Len(last.events_upcoming) :
         Len(last.events_upcoming[i].events) = 2

\* the calendar day of a datetime, counted from day 0
CalendarDay(v) == v \div HoursPerDay

\* the records of the upcoming bucket with key k, none when there is no such bucket
BucketOf(upcoming, k) ==
    IF \E i \in 1..Len(upcoming) : upcoming[i].days = k
    THEN (CHOOSE b \in {upcoming[i] : i \in 1..Len(upcoming)} : b.days = k).events
    ELSE <<>>

\* C12: with the anchor at midnight, a record is in today exactly when the
\* midnight of its start day is at or before the anchor; otherwise it is in the
\* upcoming bucket whose key is the number of calendar days from the anchor's
\* day to the record's start day, at any time of day; every key is >= 1.
C12_BucketClassification ==
    (last.fn = "build_note_for_date" /\ last.date % HoursPerDay = 0)
        => /\ \A n \in 1..Len(last.events) :
                LET r == last.events[n]
                    k == CalendarDay(r.localStartDate) - CalendarDay(last.date)
                IN  IF r.localStartDate - (r.localStartDate % HoursPerDay) <= last.date
                    THEN /\ Count(last.events_today, r) >= 1
                         /\ SumCounts(last.events_upcoming, r) = 0
                    ELSE /\ Count(last.events_today, r) = 0
                         /\ Count(BucketOf(last.events_upcoming, k), r) >= 1
                         /\ SumCounts(last.events_upcoming, r)
                               = Count(BucketOf(last.events_upcoming, k), r)
           /\ \A i \in 1..Len(last.events_upcoming) : last.events_upcoming[i].days >= 1

\* anchor midnight of day 1, a record starting on day 3 at 9:00: bucket 2,
\* rendered under "2 days" with the time "9:00AM"; a record of day 1 in today
C12_Witness ==
    /\ last.fn = "build_note_for_date"
    /\ last.date = HoursPerDay
    /\ \E n \in 1..Len(last.events) :
         last.events[n].localStartDate = 3 * HoursPerDay + 9
    /\ BucketOf(last.events_upcoming, 2) # <<>>
    /\ \E n \in 1..Len(last.events_today) :
         last.events_today[n].localStartDate = HoursPerDay + 9
    /\ Contains(last.txt, <<" | ", "2", " days ">>)
    /\ Contains(last.txt, <<"|", "9", ":00", "AM", "|">>)

-----------------------------------------------------------------------------
(* Specification of build_note_for_trip as a function of its arguments:    *)
(* one call on an empty vault, the booking map drawn from a set            *)

TripCosts == {<<"$500">>}

\* the bookings of one kind with 1..MaxSegments segments, with and without a
\* total cost; a booking of one segment comes as a single object or as a list
Bookings(legs) ==
    LET bare == {OneSegment(legs[1])}
                \cup {ManySegments(SubSeq(legs, 1, k)) : k \in 1..MaxSegments}
    IN  bare \cup {WithCost(b, c) : b \in bare, c \in TripCosts}

\* the legs of a flight booking leave on day 3, one hour apart, latest first
FlightLeg(n) == AirSegment("SFO", "FCO", 3, 12 - n)
\* the legs of a rail booking leave on day 2
RailLeg(n) == RailSegment("Roma", "Napoli", 2, 8 + n)

FlightLegs == [n \in 1..MaxSegments |-> FlightLeg(n)]
RailLegs == [n \in 1..MaxSegments |-> RailLeg(n)]

TripObjects ==
    { l @@ a @@ r :
        l \in {<<>>, LodgingObject :> <<Lodging("Hotel", 1)>>},
        a \in {<<>>} \cup {AirObject :> fs :
                              fs \in SeqsUpTo(Bookings(FlightLegs), MaxFlights) \ {<<>>}},
        r \in {<<>>} \cup {RailObject :> <<b>> : b \in Bookings(RailLegs)} }

TripInit ==
    /\ vault = <<>>
    /\ last = NoCall
    /\ run = [prog |-> TripProgram]
    /\ tab = NoTab

TripCall ==
    /\ last = NoCall
    /\ \E objects \in TripObjects : build_note_for_trip(NoteTrip, objects, FALSE)
    /\ UNCHANGED <<run, tab>>

TripNext == TripCall

SpecTrip == TripInit /\ [][TripNext]_vars

\* the number of segments of a booking as it was given
SegmentCount(obj) == IF obj.Segment.isdict THEN 1 ELSE Len(obj.Segment.value)

RECURSIVE SegmentTotal(_)
SegmentTotal(objs) ==
    IF objs = <<>> THEN 0 ELSE SegmentCount(Head(objs)) + SegmentTotal(Tail(objs))

\* the events from position off + 1 on are those of the bookings objs of one
\* kind: k events for a booking of k segments, the first with the booking's
\* total cost as price, the others with "-"
CostOnFirstLeg(events, off, objs, type) ==
    \A b \in 1..Len(objs) :
        LET first == off + SegmentTotal(SubSeq(objs, 1, b - 1)) + 1
            k == SegmentCount(objs[b])
        IN  /\ first + k - 1 <= Len(events)
            /\ \A n \in 0..(k - 1) : events[first + n].type = type
            /\ "total_cost" \in DOMAIN objs[b]
                  => events[first].price = objs[b].total_cost
            /\ \A n \in 1..(k - 1) : events[first + n].price = <<"-">>

\* C7: a Flight or Rail booking of k >= 1 segments gives exactly k TripEvents,
\* the first priced with the booking's total cost, the other k-1 with "-".
C7_MultiLegCost ==
    last.fn = "build_note_for_trip" =>
        LET lodgings == ObjectsOf(last.objects, LodgingObject)
            flights == ObjectsOf(last.objects, AirObject)
            trains == ObjectsOf(last.objects, RailObject)
        IN  /\ Len(last.trip_events)
                 = Len(lodgings) + SegmentTotal(flights) + SegmentTotal(trains)
            /\ CostOnFirstLeg(last.trip_events, Len(lodgings), flights, "Flight")
            /\ CostOnFirstLeg(last.trip_events, Len(lodgings) + SegmentTotal(flights),
                              trains, "Train")

\* a one-object flight, then a two-segment flight priced "$500" and "-", and
\* a train
C7_Witness ==
    /\ last.fn = "build_note_for_trip"
    /\ Len(ObjectsOf(last.objects, AirObject)) = 2
    /\ last.objects[AirObject][1].Segment.isdict
    /\ SegmentCount(last.objects[AirObject][2]) = 2
    /\ RailObject \in DOMAIN last.objects
    /\ \E n \in 1..(Len(last.trip_events) - 1) :
         /\ last.trip_events[n].price = <<"$500">>
         /\ last.trip_events[n + 1].type = "Flight"
         /\ last.trip_events[n + 1].price = <<"-">>

\* the events of s are in the order of their start times
NonDecreasingStart(s) == \A i \in 1..(Len(s) - 1) : s[i].start <= s[i + 1].start

\* C11: the TripEvents given to the table renderer are the trip's events in
\* non-decreasing order of start, whatever the kinds and the order of the
\* bookings and segments, and the rows of the table are in that order.
C11_ItinerarySorted ==
    (last.fn = "build_note_for_trip" /\ last.outcome # "NotImplementedError")
        => /\ NonDecreasingStart(last.table_events)
           /\ Len(last.table_events) = Len(last.trip_events)
           /\ \A i \in 1..Len(last.trip_events) :
                Count(last.table_events, last.trip_events[i])
                    = Count(last.trip_events, last.trip_events[i])
           /\ IsSubsequence(last.table_rows, MapFormat(last.table_events, TRUE))
           /\ last.table_rows # <<>> \/ last.table_events = <<>>

\* lodging, flights and a train given out of order: the table starts with the
\* lodging, then the train, then the flight legs, the later leg last
C11_Witness ==
    /\ last.fn = "build_note_for_trip"
    /\ ~NonDecreasingStart(last.trip_events)
    /\ Len(last.table_rows) >= 4
    /\ last.table_events[1].type = "Lodging"
    /\ last.table_events[2].type = "Train"
    /\ last.table_events[Len(last.table_events)].type = "Flight"
    /\ last.table_rows[1][1] = <<"Lodging">>
    /\ last.table_rows[2][1] = <<"Train">>

-----------------------------------------------------------------------------
(* make_daily_note.py: the batch of main and build_notes *)

\* line 103
date_is_within_window(x, start, end) == x >= start /\ end <= end

\* line 111: the records handed to the note of date
WindowRecords(events, date, end_date) ==
    SelectSeq(events, LAMBDA e : date_is_within_window(e.localStartDate, date, end_date))

BatchNow == HoursPerDay            \* line 134: midnight of the day of the run

BatchUpcoming == {1, 2}            \* values of args.upcoming

\* the calendar: one record on each of the days from now on
CalendarOn(k) == CalRecord("meeting", BatchNow + k * HoursPerDay + 9)

\* lines 137-141: the records the calendar service gives for [from, to],
\* sorted by start; which days carry a record is the calendar's
ApiEvents(from, to) ==
    { SelectSeq([k \in 1..(MaxDays + 1) |-> CalendarOn(k - 1)],
                LAMBDA e : e \in chosen /\ from <= e.localStartDate /\ e.localStartDate <= to) :
        chosen \in SUBSET {CalendarOn(k) : k \in 0..MaxDays} }

Idle(prog) == [prog |-> prog, status |-> "idle"]

DailyBatchInit ==
    /\ vault = <<>>
    /\ last = NoCall
    /\ run = Idle(DailyProgram)
    /\ tab = NoTab

\* main() up to the call of build_notes
DailyMain ==
    /\ run.status # "running"
    /\ \A path \in DOMAIN vault : Len(NotesRegion(vault[path], TASKS)) <= MaxNotesLen
    /\ \E days \in 1..MaxDays, upcoming \in BatchUpcoming, overwrite \in BOOLEAN :
         \E events \in ApiEvents(BatchNow,
                                 BatchNow + (days - 1 + upcoming) * HoursPerDay) :
            run' = [prog |-> DailyProgram, status |-> "running", events |-> events,
                    now |-> BatchNow, days |-> days, upcoming |-> upcoming,
                    overwrite |-> overwrite, i |-> 0, attempted |-> <<>>]
    /\ last' = NoCall
    /\ UNCHANGED <<vault, tab>>

\* how the loop goes on after a call of a builder: an exception leaves the
\* loop and the program, there is no handler
AfterCall(outcome, n, key) ==
    IF outcome \in {"AssertionError", "NotImplementedError"}
    THEN [run EXCEPT !.status = "raised", !.attempted = Append(@, key)]
    ELSE [run EXCEPT !.i = @ + 1, !.attempted = Append(@, key),
                     !.status = IF run.i + 1 = n THEN "done" ELSE "running"]

\* one turn of the loop of build_notes (lines 108-111)
DailyBuildNotesStep ==
    /\ run.prog = DailyProgram
    /\ run.status = "running"
    /\ LET date == run.now + run.i * HoursPerDay
           end_date == date + run.upcoming * HoursPerDay
       IN  /\ build_note_for_date(WindowRecords(run.events, date, end_date),
                                  date, run.overwrite)
           /\ run' = AfterCall(last'.outcome, run.days, date)
    /\ UNCHANGED tab

\* between two runs the user edits a note: the Notes text, or the blank lines
BatchUserTexts == {<<NL>>, <<NL, "note", NL>>}

BatchUserEdit ==
    /\ run.status \in {"done", "raised"}
    /\ EditNotes(BatchUserTexts)

DailyBatchNext == DailyMain \/ DailyBuildNotesStep \/ BatchUserEdit

SpecDailyBatch == DailyBatchInit /\ [][DailyBatchNext]_vars

\* the anchor dates of the run: now, now + 1 day, ..., days of them
RunDates == [k \in 1..run.days |-> run.now + (k - 1) * HoursPerDay]

\* C6: build_notes makes one note per anchor date d in [now, now+days), and
\* every record handed to the note of d starts in [d, d + upcoming days).
C6_UpcomingWindowBound ==
    (run.prog = DailyProgram /\ run.status # "idle")
        => /\ run.status = "done" => run.attempted = RunDates
           /\ last.fn = "build_note_for_date" =>
                \A n \in 1..Len(last.events) :
                    /\ last.date <= last.events[n].localStartDate
                    /\ last.events[n].localStartDate
                          < last.date + run.upcoming * HoursPerDay

\* C10: a fatal error of one note does not end the batch: when the run is over,
\* every requested date has been attempted, once.
C10_BatchAttemptsEveryNote ==
    (run.prog = DailyProgram /\ run.status \in {"done", "raised"})
        => run.attempted = RunDates

-----------------------------------------------------------------------------
(* make_tripit_note.py: the batch of build_notes *)

\* a value of the payload that is one object or a list of objects
AsList(v) == IF v.isdict THEN <<v.value>> ELSE v.value

Single(x) == [isdict |-> TRUE, value |-> x]
Listed(xs) == [isdict |-> FALSE, value |-> xs]

\* line 214: the kinds build_notes collects, in its order
CollectedKinds ==
    <<WeatherObject, AirObject, LodgingObject, RailObject, TransportObject>>

\* lines 215-220: the objects of kind k that belong to the trip
OwnedObjects(tripit, k, trip) ==
    SelectSeq(IF k \in DOMAIN tripit THEN AsList(tripit[k]) ELSE <<>>,
              LAMBDA o : o.trip_id = trip.id)

\* lines 213-220: the booking map of a trip, a defaultdict that has a key
\* once an object was appended under it
CollectObjects(tripit, trip) ==
    LET present == {n \in 1..Len(CollectedKinds) :
                       OwnedObjects(tripit, CollectedKinds[n], trip) # <<>>}
    IN  [k \in {CollectedKinds[n] : n \in present} |-> OwnedObjects(tripit, k, trip)]

TripKey == <<"Trip">>

PayloadTrip(n) ==
    [id |-> n, display_name |-> <<"Trip", " ", ToString(n)>>,
     start_date |-> "2024-05-01", end_date |-> "2024-05-03",
     primary_location |-> "Rome", relative_url |-> "trip/x"]

OfTrip(obj, n) == [obj EXCEPT !.trip_id = n]

\* payloads: one trip as an object or 1..MaxTrips trips as a list; a lodging
\* and a flight of trip 1 or of no trip of the payload; a car rental, which
\* is no recognized kind, of trip 1 or absent
Payloads ==
    { t @@ l @@ a @@ c :
        t \in {TripKey :> Single(PayloadTrip(1))}
              \cup {TripKey :> Listed([n \in 1..k |-> PayloadTrip(n)]) : k \in 1..MaxTrips},
        l \in {<<>>} \cup {LodgingObject :> Single(OfTrip(Lodging("Hotel", 1), n)) :
                              n \in {1, MaxTrips + 1}},
        a \in {<<>>} \cup {AirObject :> Listed(<<OfTrip(OneSegment(FlightLeg(1)), n)>>) :
                              n \in {1, MaxTrips + 1}},
        c \in {<<>>, CarObject :> Listed(<<[trip_id |-> 1]>>)} }

TripBatchInit ==
    /\ vault = <<>>
    /\ last = NoCall
    /\ run = Idle(TripProgram)
    /\ tab = NoTab

\* main() up to the call of build_notes
TripMain ==
    /\ run.status # "running"
    /\ \E tripit \in Payloads, overwrite \in BOOLEAN :
         run' = [prog |-> TripProgram, status |-> "running", tripit |-> tripit,
                 trips |-> AsList(tripit[TripKey]), overwrite |-> overwrite,
                 i |-> 0, attempted |-> <<>>]
    /\ last' = NoCall
    /\ UNCHANGED <<vault, tab>>

\* one turn of the loop of build_notes (lines 212-221)
TripBuildNotesStep ==
    /\ run.prog = TripProgram
    /\ run.status = "running"
    /\ LET trip == run.trips[run.i + 1]
       IN  /\ build_note_for_trip(trip, CollectObjects(run.tripit, trip), run.overwrite)
           /\ run' = AfterCall(last'.outcome, Len(run.trips), trip.id)
    /\ UNCHANGED tab

TripBatchNext == TripMain \/ TripBuildNotesStep \/ BatchUserEdit

SpecTripBatch == TripBatchInit /\ [][TripBatchNext]_vars

\* the payload holds, under a key ending in "Object" that is no recognized
\* kind, a booking of the trip with this id
UnknownBookingOf(tripit, id) ==
    \E k \in DOMAIN tripit :
        /\ k[Len(k)] = "Object"
        /\ k \notin {LodgingObject, WeatherObject, AirObject, RailObject, TransportObject}
        /\ \E n \in 1..Len(AsList(tripit[k])) : AsList(tripit[k])[n].trip_id = id

\* C9: a trip that owns a booking of an unrecognized kind ends in an error and
\* no note is written for it.
C9_UnknownKindNeverSkipped ==
    (run.prog = TripProgram /\ run.status # "idle"
        /\ last.fn = "build_note_for_trip"
        /\ UnknownBookingOf(run.tripit, run.attempted[Len(run.attempted)]))
        => (last.outcome = "NotImplementedError" /\ LastFileUntouched)

====
